---- MODULE Spec2Model ----
(***************************************************************************)
(* Model of nginx-log-analyzer: the log locator (find_latest_log), the     *)
(* line parser with its error budget (parse_log), the statistics           *)
(* aggregator (calculate_statistics), the report writer (generate_report)  *)
(* and the pipeline that drives them (main).                               *)
(*                                                                         *)
(* Numbers.  Python floats are modelled exactly: a duration is an integer  *)
(* number of thousandths of a second, a threshold is a fraction <<n, d>>   *)
(* and errors / total_lines > error_threshold is compared by               *)
(* cross-multiplication.                                                   *)
(***************************************************************************)
EXTENDS Integers, Sequences, FiniteSets, TLC

\* Longest log file (in lines) and largest directory (in entries) explored.
MaxLines == 3
MaxDirEntries == 2

\* Largest number of calls of calculate_statistics made on one input.
MaxRuns == 2

\* Longest input (in lines) of the second of two passes of parse_log.
MaxSecondLines == 2

\* Largest number of calls of set_config and get_config explored.
MaxConfigCalls == 4

\* Python's None where a string, a match object or a record is expected.
None == <<>>

(***************************************************************************)
(* Log lines.  A line is described by what LOG_LINE_PATTERN can see of it: *)
(* head  - the text from the client address up to and including the last   *)
(*         quoted field ("http_x_rb_user") has the shape the pattern asks  *)
(*         for;                                                            *)
(* url   - the request target inside the first quoted field;               *)
(* tail  - what follows the last quoted field: a decimal text <<w, f>>     *)
(*         standing for "w.fff", or None when there is no decimal there    *)
(*         (end of line, or text that is not \d+\.\d+).                    *)
(***************************************************************************)
Urls == {"/a", "/b"}
RequestTimeTexts == {<<0, 100>>, <<1, 500>>}

GoodLines == [head : {TRUE}, url : Urls, tail : RequestTimeTexts]
NoDurationLines == {[head |-> TRUE, url |-> "/a", tail |-> None]}
BadLines == {[head |-> FALSE, url |-> "", tail |-> None]}
Lines == GoodLines \cup NoDurationLines \cup BadLines

RECURSIVE SeqsUpTo(_, _)
SeqsUpTo(S, n) ==
    IF n = 0 THEN {<<>>}
    ELSE LET shorter == SeqsUpTo(S, n - 1)
         IN  shorter \cup {Append(s, x) : s \in {t \in shorter : Len(t) = n - 1}, x \in S}

LogFiles == SeqsUpTo(Lines, MaxLines)

\* error_threshold values, as fractions <<numerator, denominator>> in [0, 1].
Thresholds == {<<0, 1>>, <<1, 4>>, <<1, 2>>, <<3, 4>>, <<1, 1>>}

(***************************************************************************)
(* Directory entries.  A file name is described by what                    *)
(* LOG_FILENAME_PATTERN can see of it:                                     *)
(* prefix - the text before the date digits;                               *)
(* digits - the eight digits as <<YYYY, MM, DD>>, or None when the name    *)
(*          has no eight digits after the prefix;                          *)
(* suffix - the text after the digits.                                     *)
(***************************************************************************)
LogPrefix == "nginx-access-ui.log-"
DateDigits == {<<2025, 2, 10>>, <<2025, 2, 14>>, <<2025, 2, 16>>,
               <<2025, 2, 30>>, <<2025, 13, 40>>}
Suffixes == {"", ".gz", ".bz2", "\n", ".gz\n"}

FileNames ==
    [prefix : {LogPrefix}, digits : DateDigits, suffix : Suffixes]
    \cup {[prefix |-> "old-nginx-access-ui.log-", digits |-> <<2025, 2, 16>>, suffix |-> ""],
          [prefix |-> "random-file.txt", digits |-> None, suffix |-> ""]}

RECURSIVE SetsUpTo(_, _)
SetsUpTo(S, n) ==
    IF n = 0 THEN {{}}
    ELSE LET smaller == SetsUpTo(S, n - 1)
         IN  smaller \cup {s \cup {x} : s \in smaller, x \in S}

Directories == SetsUpTo(FileNames, MaxDirEntries)

(***************************************************************************)
(* LOG_FILENAME_PATTERN.match(file.name).  match() anchors the pattern at  *)
(* the start of the name.  The pattern ends in '$', which in Python        *)
(* matches at the end of the string and also just before a newline that    *)
(* ends the string.  The groups are (digits, '.gz' or None).               *)
(***************************************************************************)
LOG_FILENAME_PATTERN(name) ==
    IF /\ name.prefix = LogPrefix
       /\ name.digits /= None
       /\ name.suffix \in {"", ".gz", "\n", ".gz\n"}
    THEN [matched |-> TRUE,
          date_str |-> name.digits,
          gz_ext |-> IF name.suffix \in {".gz", ".gz\n"} THEN ".gz" ELSE ""]
    ELSE [matched |-> FALSE, date_str |-> None, gz_ext |-> ""]

IsLeap(y) == (y % 4 = 0 /\ y % 100 /= 0) \/ y % 400 = 0

DaysInMonth(y, m) ==
    IF m = 2 THEN (IF IsLeap(y) THEN 29 ELSE 28)
    ELSE IF m \in {4, 6, 9, 11} THEN 30 ELSE 31

\* datetime.strptime(date_str, '%Y%m%d') returns a date; it raises
\* ValueError when the digits are not a calendar date.
StrptimeRaises(date_str) ==
    ~ (/\ date_str[1] >= 1
       /\ date_str[2] \in 1..12
       /\ date_str[3] \in 1..DaysInMonth(date_str[1], date_str[2]))

\* Order of datetime values.
DateLess(a, b) ==
    \/ a[1] < b[1]
    \/ a[1] = b[1] /\ a[2] < b[2]
    \/ a[1] = b[1] /\ a[2] = b[2] /\ a[3] < b[3]

\* LogFileMetadata(file, log_date, file_type)
LogFileMetadata(file, log_date, file_type) ==
    [path |-> file, date |-> log_date, file_type |-> file_type]

\* The entries of the directory that the loop of find_latest_log appends.
MatchingEntries(dir) == {file \in dir : LOG_FILENAME_PATTERN(file).matched}

(***************************************************************************)
(* find_latest_log(log_dir): the outcomes the call can have.  iterdir()    *)
(* gives the entries in an arbitrary order and max() keeps the first of    *)
(* the entries with the largest date, so any of them can be returned.      *)
(* strptime raises out of the loop for a matching name whose digits are    *)
(* not a date.                                                             *)
(***************************************************************************)
find_latest_log(dir) ==
    LET matching == MatchingEntries(dir)
        log_files == {LogFileMetadata(file, LOG_FILENAME_PATTERN(file).date_str,
                          IF LOG_FILENAME_PATTERN(file).gz_ext /= "" THEN "GZ" ELSE "PLAIN")
                      : file \in matching}
    IN  IF \E file \in matching : StrptimeRaises(LOG_FILENAME_PATTERN(file).date_str)
        THEN {[kind |-> "raised", type |-> "ValueError", value |-> None]}
        ELSE IF log_files = {}
        THEN {[kind |-> "returned", type |-> "None", value |-> None]}
        ELSE {[kind |-> "returned", type |-> "LogFileMetadata", value |-> meta]
              : meta \in {m \in log_files :
                            \A other \in log_files : ~DateLess(m.date, other.date)}}

(***************************************************************************)
(* calculate_statistics.  Durations are integers (thousandths of a         *)
(* second); a quotient a / b is kept as the fraction <<a, b>>.             *)
(***************************************************************************)
RECURSIVE SumTimes(_)
SumTimes(times) ==
    IF times = <<>> THEN 0 ELSE times[1] + SumTimes(Tail(times))

RECURSIVE MaxTime(_)
MaxTime(times) ==
    IF Len(times) = 1 THEN times[1]
    ELSE LET m == MaxTime(Tail(times)) IN IF times[1] >= m THEN times[1] ELSE m

ArrivalOrder(times) == times

\* sorted(times)
RECURSIVE SortedTimes(_)
SortedTimes(times) ==
    IF times = <<>> THEN <<>>
    ELSE LET rest == SortedTimes(Tail(times))
             k == Cardinality({i \in 1..Len(rest) : rest[i] <= times[1]})
         IN  SubSeq(rest, 1, k) \o <<times[1]>> \o SubSeq(rest, k + 1, Len(rest))

\* statistics.median(times), as a fraction.
Median(times) ==
    LET data == SortedTimes(times)
        n == Len(data)
    IN  IF n % 2 = 1 THEN <<data[(n + 1) \div 2], 1>>
        ELSE <<data[n \div 2] + data[n \div 2 + 1], 2>>

\* URLStatistic(url=url)
URLStatistic(url) == [url |-> url, count |-> 0, time_sum |-> 0, times |-> <<>>]

AddRequestUncounted(stat, request_time) ==
    [stat EXCEPT !.time_sum = @ + request_time,
                 !.times = Append(@, request_time)]

\* URLStatistic.add_request
add_request(stat, request_time) ==
    [stat EXCEPT !.count = @ + 1,
                 !.time_sum = @ + request_time,
                 !.times = Append(@, request_time)]

ComputeMetricsAsShares(stat, total_requests, total_time) ==
    [url |-> stat.url,
     count |-> stat.count,
     count_perc |-> IF total_requests /= 0 THEN <<stat.count, total_requests>> ELSE <<0, 1>>,
     time_sum |-> stat.time_sum,
     time_perc |-> IF total_time /= 0 THEN <<stat.time_sum, total_time>> ELSE <<0, 1>>,
     time_avg |-> IF stat.count /= 0 THEN <<stat.time_sum, stat.count>> ELSE <<0, 1>>,
     time_max |-> IF stat.times /= <<>> THEN MaxTime(stat.times) ELSE 0,
     time_med |-> IF stat.times /= <<>> THEN Median(stat.times) ELSE <<0, 1>>]

\* URLStatistic.compute_metrics
compute_metrics(stat, total_requests, total_time) ==
    [url |-> stat.url,
     count |-> stat.count,
     count_perc |-> IF total_requests /= 0 THEN <<stat.count * 100, total_requests>> ELSE <<0, 1>>,
     time_sum |-> stat.time_sum,
     time_perc |-> IF total_time /= 0 THEN <<stat.time_sum * 100, total_time>> ELSE <<0, 1>>,
     time_avg |-> IF stat.count /= 0 THEN <<stat.time_sum, stat.count>> ELSE <<0, 1>>,
     time_max |-> IF stat.times /= <<>> THEN MaxTime(stat.times) ELSE 0,
     time_med |-> IF stat.times /= <<>> THEN Median(stat.times) ELSE <<0, 1>>]

\* "url_stats: dict[str, URLStatistic] = {}": every call starts from a new,
\* empty dict, whatever accumulators an earlier call has left in memory.
ReusedUrlStats(leftover) == leftover

NewUrlStats(leftover) == <<>>

\* The dict url_stats after the loop over data, as the sequence of its
\* values in insertion order; initial is the dict before the loop.
RECURSIVE UrlStats(_, _)
UrlStats(initial, data) ==
    IF data = <<>> THEN initial
    ELSE LET before == UrlStats(initial, SubSeq(data, 1, Len(data) - 1))
             entry == data[Len(data)]
             known == {i \in 1..Len(before) : before[i].url = entry.url}
         IN  IF known = {}
             THEN Append(before, add_request(URLStatistic(entry.url), entry.request_time))
             ELSE [i \in 1..Len(before) |->
                      IF i \in known THEN add_request(before[i], entry.request_time)
                      ELSE before[i]]

InsertionOrder(records) == records

RECURSIVE SortedTiesReversed(_)
SortedTiesReversed(records) ==
    IF records = <<>> THEN <<>>
    ELSE LET rest == SortedTiesReversed(Tail(records))
             k == Cardinality({i \in 1..Len(rest) : rest[i].time_sum >= records[1].time_sum})
         IN  SubSeq(rest, 1, k) \o <<records[1]>> \o SubSeq(rest, k + 1, Len(rest))

\* sorted(records, key=time_sum, reverse=True): a stable sort, records with
\* equal keys keep their order.
RECURSIVE SortedByTimeSum(_)
SortedByTimeSum(records) ==
    IF records = <<>> THEN <<>>
    ELSE LET rest == SortedByTimeSum(Tail(records))
             k == Cardinality({i \in 1..Len(rest) : rest[i].time_sum > records[1].time_sum})
         IN  SubSeq(rest, 1, k) \o <<records[1]>> \o SubSeq(rest, k + 1, Len(rest))

\* The accumulators a call of calculate_statistics(data) ends with, when
\* leftover is what earlier calls have left.
Accumulators(leftover, data) == UrlStats(NewUrlStats(leftover), data)

\* The value calculate_statistics(data) returns.
calculate_statistics(leftover, data) ==
    LET total_requests == Len(data)
        total_time == SumTimes([i \in 1..Len(data) |-> data[i].request_time])
        stats == Accumulators(leftover, data)
    IN  SortedByTimeSum([i \in 1..Len(stats) |->
                            compute_metrics(stats[i], total_requests, total_time)])

(***************************************************************************)
(* generate_report(data, report_path, template_path) on the files of the   *)
(* report directory: the exception it raises, if any, and the files it     *)
(* leaves.  A report file is [name, content]; the content written is the   *)
(* template with the data substituted, kept here as the data.              *)
(***************************************************************************)
generate_report(data, report_path, template_exists, files) ==
    IF ~template_exists
    THEN [raised |-> "FileNotFoundError", files |-> files]
    ELSE [raised |-> "None",
          files |-> {f \in files : f.name /= report_path}
                    \cup {[name |-> report_path, content |-> data]}]

\* Number of required parameters of generate_report, and number of
\* arguments in the call main makes.
GenerateReportParams == 3
MainReportArgs == 2

(***************************************************************************)
(* Configuration.  The file given by --config is missing, is not TOML, or  *)
(* is a TOML table; a table is described by the values ConfigModel reads.  *)
(***************************************************************************)
DEFAULT_ERROR_THRESHOLD == <<1, 10>>
DEFAULT_REPORT_SIZE == 1000

Toml(threshold, size, log_file_value) ==
    [kind |-> "toml", error_threshold |-> threshold, report_size |-> size,
     log_file |-> log_file_value]

NoConfigFile == [kind |-> "missing", error_threshold |-> <<0, 1>>, report_size |-> 0,
                 log_file |-> "absent"]
MalformedConfigFile == [kind |-> "malformed", error_threshold |-> <<0, 1>>, report_size |-> 0,
                        log_file |-> "absent"]

ValidConfigFiles ==
    {Toml(threshold, size, "absent") : threshold \in {<<1, 2>>, <<1, 1>>}, size \in {1, 2}}

ConfigFiles ==
    ValidConfigFiles
    \cup {NoConfigFile, MalformedConfigFile,
          Toml(<<3, 2>>, 1, "absent"), Toml(<<1, 2>>, 0, "absent"),
          Toml(<<1, 2>>, 1, "not a file")}

\* ConfigModel._validate_error_threshold accepts the value
_validate_error_threshold(value) == 0 <= value[1] /\ value[1] <= value[2]

\* ConfigModel._validate_report_size accepts the value
_validate_report_size(value) == value > 0

\* ConfigModel._validate_directory accepts the path
_validate_directory(is_dir) == is_dir

\* ConfigModel._validate_log_file accepts the path
_validate_log_file(value) == value /= "not a file"

ConfigModel(threshold, size) == [error_threshold |-> threshold, report_size |-> size]

\* ConfigModel.from_toml(config_path): the exception raised ("None" if
\* none) and the configuration returned.
from_toml(file, log_is_dir, report_is_dir) ==
    IF file.kind = "missing"
    THEN [raised |-> "FileNotFoundError", config |-> ConfigModel(<<0, 1>>, 0)]
    ELSE IF file.kind = "malformed"
    THEN [raised |-> "ValueError", config |-> ConfigModel(<<0, 1>>, 0)]
    ELSE IF /\ _validate_log_file(file.log_file)
            /\ _validate_error_threshold(file.error_threshold)
            /\ _validate_directory(log_is_dir)
            /\ _validate_directory(report_is_dir)
            /\ _validate_report_size(file.report_size)
    THEN [raised |-> "None", config |-> ConfigModel(file.error_threshold, file.report_size)]
    ELSE [raised |-> "ValueError", config |-> ConfigModel(<<0, 1>>, 0)]

\* report-YYYY.MM.DD.html, from log_metadata.date.strftime("%Y.%m.%d")
ReportFilename(date) == [stem |-> "report-", date |-> date, ext |-> ".html"]

\* Directories and report directories main is run on.
MainDirectories ==
    {{},
     {[prefix |-> LogPrefix, digits |-> <<2025, 2, 10>>, suffix |-> ""],
      [prefix |-> LogPrefix, digits |-> <<2025, 2, 14>>, suffix |-> ".gz"],
      [prefix |-> LogPrefix, digits |-> <<2025, 2, 16>>, suffix |-> ".bz2"]},
     {[prefix |-> LogPrefix, digits |-> <<2025, 2, 10>>, suffix |-> ""],
      [prefix |-> LogPrefix, digits |-> <<2025, 13, 40>>, suffix |-> ""]}}

ReportDirectories ==
    {{}, {[name |-> ReportFilename(<<2025, 2, 14>>), content |-> <<>>]}}

VARIABLES
    log_file,         \* parse_log: the lines the generator argument will give
    error_threshold,  \* parse_log: the threshold argument
    pos,              \* parse_log: number of lines taken from log_file
    errors,           \* parse_log: local counter
    total_lines,      \* parse_log: local counter
    parsed_count,     \* parse_log: local counter
    yielded,          \* the entries parse_log has yielded to its consumer
    p_pc,             \* parse_log: "unstarted", "loop", "returned", "raised"
    exc,              \* the exception parse_log raised, [type |-> "None"] if none
    error_log,        \* the records passed to logger.error by parse_log
    args_config,      \* main: args.config, "None" or the path given
    config_file,      \* the file at that path
    log_dir_is_dir,   \* the log directory exists
    report_dir_is_dir,\* the report directory exists
    log_dir,          \* the entries of the log directory
    report_dir,       \* the files of the report directory
    m_pc,             \* main: position; "idle" when main is not running
    exit_status,      \* main: status the process ended with, NotExited before
    main_exc,         \* main: the exception that ended the run, and its handler
    config,           \* main: local variable
    log_metadata,     \* main: result of find_latest_log
    parsed_entries,   \* main: local variable, unbound until list() returns
    statistics,       \* main: local variable
    calls,            \* main: the pipeline functions called so far, in order
    handle,           \* the file unzip_if_needed reads: "none" (no such generator),
                      \* "unopened", "open", "closed"
    url_stats,        \* calculate_statistics: the accumulators of the latest call
    outputs,          \* the values the calls of calculate_statistics returned
    renderer_data,    \* main: the data argument of its call of generate_report,
                      \* unbound until the call is made
    second,           \* a second parse_log generator: its arguments, its locals,
                      \* what it has yielded and how it ended
    _CONFIG_CONTAINER,\* config.py: the module-level dict, a set of <<key, value>>
    config_calls      \* the calls of set_config and get_config made, with their results

parse_vars == <<log_file, error_threshold, pos, errors, total_lines,
                parsed_count, yielded, p_pc, exc, error_log>>

env_vars == <<args_config, config_file, log_dir_is_dir, report_dir_is_dir, log_dir>>

main_vars == <<m_pc, exit_status, main_exc, config, log_metadata, parsed_entries,
               statistics, calls>>

stats_vars == <<url_stats, outputs>>

global_vars == <<_CONFIG_CONTAINER, config_calls>>

vars == <<parse_vars, env_vars, report_dir, main_vars, handle, stats_vars, renderer_data, second, global_vars>>

NotExited == 0 - 1
NoMetadata == [kind |-> "unset", type |-> "None", value |-> None]
Unbound == [bound |-> FALSE, value |-> <<>>]
NotRaised == [type |-> "None", handler |-> "None"]

NoException == [type |-> "None"]

\* No second parse_log generator has been created.
NoFrame ==
    [log_file |-> <<>>, error_threshold |-> <<0, 1>>, pos |-> 0, errors |-> 0,
     total_lines |-> 0, parsed_count |-> 0, yielded |-> <<>>, p_pc |-> "none",
     exc |-> NoException]

(***************************************************************************)
(* LOG_LINE_PATTERN.match(line.strip()): the group request_time is         *)
(* optional, so the match succeeds as soon as the head has the right       *)
(* shape; the group is None when no decimal follows.                       *)
(***************************************************************************)
LOG_LINE_PATTERN(line) ==
    IF line.head
    THEN [matched |-> TRUE, url |-> line.url, request_time |-> line.tail]
    ELSE [matched |-> FALSE, url |-> "", request_time |-> None]

\* float("w.fff"), in thousandths of a second.
Float(text) == text[1] * 1000 + text[2]

\* ParsedLogEntry(url=..., request_time=...)
ParsedLogEntry(url, request_time) == [url |-> url, request_time |-> request_time]

StreamExhaustedEarly(taken, file) == taken >= 1 \/ taken = Len(file)

\* "for line in log_file" has no further line to give.
StreamExhausted(taken, file) == taken = Len(file)

ErrorRateAnyFailure(errs, total, threshold) == errs > 0

ErrorRateReaches(errs, total, threshold) ==
    errs * threshold[2] >= threshold[1] * total

ErrorRateBelow(errs, total, threshold) ==
    errs * threshold[2] < threshold[1] * total

\* error_rate = errors / total_lines; error_rate > error_threshold
ErrorRateExceeds(errs, total, threshold) ==
    errs * threshold[2] > threshold[1] * total

\* f'{x:.2%}' of the fraction n/d: hundredths of a percent, rounded.
Percent2(n, d) == (2 * 10000 * n + d) \div (2 * d)

\* The ValueError raised when the budget is exceeded: its only argument is
\* the message, which quotes the two formatted percentages.
BudgetError(errs, total, threshold) ==
    [type |-> "ValueError",
     args |-> <<[error_rate |-> Percent2(errs, total),
                 error_threshold |-> Percent2(threshold[1], threshold[2])]>>]

\* The file of unzip_if_needed after parse_log has asked it for a line:
\* the first request opens the file inside a with statement, and the
\* request that finds no further line leaves that statement.
HandleAfterNext(file_handle, exhausted) ==
    IF file_handle = "none" THEN "none"
    ELSE IF exhausted THEN "closed" ELSE "open"

\* One iteration of the loop of parse_log.
ParseLine ==
    /\ p_pc = "loop"
    /\ ~StreamExhausted(pos, log_file)
    /\ LET line == log_file[pos + 1]
           match == LOG_LINE_PATTERN(line)
       IN  /\ pos' = pos + 1
           /\ total_lines' = total_lines + 1
           /\ IF match.matched
              THEN /\ parsed_count' = parsed_count + 1
                   /\ errors' = errors
                   /\ IF match.request_time = None
                      THEN \* float(None) raises TypeError inside the generator
                           /\ p_pc' = "raised"
                           /\ exc' = [type |-> "TypeError"]
                           /\ yielded' = yielded
                      ELSE /\ yielded' = Append(yielded,
                                  ParsedLogEntry(match.url, Float(match.request_time)))
                           /\ UNCHANGED <<p_pc, exc>>
              ELSE /\ errors' = errors + 1
                   /\ UNCHANGED <<parsed_count, yielded, p_pc, exc>>
    /\ handle' = HandleAfterNext(handle, FALSE)
    /\ UNCHANGED <<log_file, error_threshold, error_log>>
    /\ UNCHANGED <<env_vars, report_dir, main_vars, stats_vars, renderer_data, second, global_vars>>

NoLinesUnchecked(total) == FALSE

\* "if total_lines == 0": the pass has taken no line.
NoLines(total) == total = 0

\* The code of parse_log after its loop.  errors / total_lines raises
\* ZeroDivisionError when total_lines is 0.
Gate ==
    /\ p_pc = "loop"
    /\ StreamExhausted(pos, log_file)
    /\ IF NoLines(total_lines)
       THEN /\ p_pc' = "returned"
            /\ UNCHANGED <<exc, error_log>>
       ELSE IF total_lines = 0
            THEN /\ exc' = [type |-> "ZeroDivisionError"]
                 /\ p_pc' = "raised"
                 /\ UNCHANGED error_log
       ELSE IF ErrorRateExceeds(errors, total_lines, error_threshold)
            THEN /\ error_log' = Append(error_log,
                        [error_rate |-> Percent2(errors, total_lines),
                         error_threshold |-> Percent2(error_threshold[1], error_threshold[2]),
                         total_lines |-> total_lines,
                         errors |-> errors])
                 /\ exc' = BudgetError(errors, total_lines, error_threshold)
                 /\ p_pc' = "raised"
            ELSE /\ p_pc' = "returned"
                 /\ UNCHANGED <<exc, error_log>>
    /\ UNCHANGED <<log_file, error_threshold, pos, errors, total_lines,
                   parsed_count, yielded>>
    /\ handle' = HandleAfterNext(handle, TRUE)
    /\ UNCHANGED <<env_vars, report_dir, main_vars, stats_vars, renderer_data, second, global_vars>>

\* The state of a parse_log generator that has just been created.
ParseStart(file, threshold) ==
    /\ log_file = file
    /\ error_threshold = threshold
    /\ pos = 0
    /\ errors = 0
    /\ total_lines = 0
    /\ parsed_count = 0
    /\ yielded = <<>>
    /\ exc = NoException
    /\ error_log = <<>>

\* main has not been started.
MainIdle ==
    /\ args_config = "None"
    /\ config_file = NoConfigFile
    /\ log_dir_is_dir = TRUE
    /\ report_dir_is_dir = TRUE
    /\ report_dir = {}
    /\ m_pc = "idle"
    /\ exit_status = NotExited
    /\ main_exc = NotRaised
    /\ config = ConfigModel(DEFAULT_ERROR_THRESHOLD, DEFAULT_REPORT_SIZE)
    /\ log_metadata = NoMetadata
    /\ parsed_entries = Unbound
    /\ statistics = <<>>
    /\ calls = <<>>
    /\ handle = "none"
    /\ url_stats = <<>>
    /\ outputs = <<>>
    /\ renderer_data = Unbound
    /\ second = NoFrame
    /\ _CONFIG_CONTAINER = {}
    /\ config_calls = <<>>

\* parse_log alone, driven to its end by a consumer that iterates it.
InitParse ==
    /\ \E file \in LogFiles, threshold \in Thresholds : ParseStart(file, threshold)
    /\ p_pc = "loop"
    /\ log_dir = {}
    /\ MainIdle

NextParse == ParseLine \/ Gate

SpecParse == InitParse /\ [][NextParse]_vars

(***************************************************************************)
(* parse_log and calculate_statistics together: a consumer lists what a    *)
(* pass over the input yields and, when the pass returns, gives the list   *)
(* to calculate_statistics, up to MaxRuns times.  The input is made of     *)
(* lines with a duration (a duration of zero included) and of lines the    *)
(* pattern does not match.                                                 *)
(***************************************************************************)
StatsRequestTimeTexts == RequestTimeTexts \cup {<<0, 0>>}
StatsLines == [head : {TRUE}, url : Urls, tail : StatsRequestTimeTexts] \cup BadLines
StatsLogFiles == SeqsUpTo(StatsLines, MaxLines)

\* calculate_statistics(list of the entries yielded)
CalculateStatistics ==
    /\ p_pc = "returned"
    /\ Len(outputs) < MaxRuns
    /\ statistics' = calculate_statistics(url_stats, yielded)
    /\ url_stats' = Accumulators(url_stats, yielded)
    /\ outputs' = Append(outputs, statistics')
    /\ UNCHANGED <<parse_vars, env_vars, report_dir, handle, renderer_data, second, global_vars>>
    /\ UNCHANGED <<m_pc, exit_status, main_exc, config, log_metadata, parsed_entries, calls>>

InitStats ==
    /\ \E file \in StatsLogFiles, threshold \in Thresholds : ParseStart(file, threshold)
    /\ p_pc = "loop"
    /\ log_dir = {}
    /\ MainIdle

NextStats == ParseLine \/ Gate \/ CalculateStatistics

SpecStats == InitStats /\ [][NextStats]_vars

(***************************************************************************)
(* Two parse_log generators alive at once, each driven by its consumer     *)
(* one line at a time, in any order.  The first is the one of ParseLine    *)
(* and Gate; the second, created at any moment, keeps its arguments and    *)
(* its locals in second.  Both log through the one module-level logger.    *)
(***************************************************************************)
TwoPassLines ==
    {[head |-> TRUE, url |-> "/a", tail |-> <<0, 100>>],
     [head |-> TRUE, url |-> "/b", tail |-> <<1, 500>>]}
    \cup NoDurationLines \cup BadLines

ModuleCounters(own, other) == other

\* errors, total_lines and parsed_count are local variables of parse_log:
\* a generator reads and writes the ones of its own frame (own), not the
\* ones of another generator (other).
FrameCounters(own, other) == own

\* parse_log(log_file, error_threshold) called a second time: the generator
\* is created, its body has not started.
SecondStart(file, threshold) ==
    /\ second.p_pc = "none"
    /\ second' = [NoFrame EXCEPT !.log_file = file, !.error_threshold = threshold,
                                 !.p_pc = "loop"]
    /\ UNCHANGED <<parse_vars, env_vars, report_dir, main_vars, handle, stats_vars,
                   renderer_data, global_vars>>

\* One iteration of the loop of the second generator.
SecondParseLine ==
    /\ second.p_pc = "loop"
    /\ ~StreamExhausted(second.pos, second.log_file)
    /\ LET line == second.log_file[second.pos + 1]
           match == LOG_LINE_PATTERN(line)
           counters == FrameCounters(
               [errors |-> second.errors, total_lines |-> second.total_lines,
                parsed_count |-> second.parsed_count],
               [errors |-> errors, total_lines |-> total_lines,
                parsed_count |-> parsed_count])
       IN  second' =
               IF ~match.matched
               THEN [second EXCEPT !.pos = @ + 1,
                                   !.total_lines = counters.total_lines + 1,
                                   !.errors = counters.errors + 1]
               ELSE IF match.request_time = None
               THEN [second EXCEPT !.pos = @ + 1,
                                   !.total_lines = counters.total_lines + 1,
                                   !.parsed_count = counters.parsed_count + 1,
                                   !.p_pc = "raised",
                                   !.exc = [type |-> "TypeError"]]
               ELSE [second EXCEPT !.pos = @ + 1,
                                   !.total_lines = counters.total_lines + 1,
                                   !.parsed_count = counters.parsed_count + 1,
                                   !.yielded = Append(@, ParsedLogEntry(match.url,
                                                   Float(match.request_time)))]
    /\ UNCHANGED <<parse_vars, env_vars, report_dir, main_vars, handle, stats_vars,
                   renderer_data, global_vars>>

\* The code of the second generator after its loop.
SecondGate ==
    /\ second.p_pc = "loop"
    /\ StreamExhausted(second.pos, second.log_file)
    /\ LET counters == FrameCounters(
               [errors |-> second.errors, total_lines |-> second.total_lines,
                parsed_count |-> second.parsed_count],
               [errors |-> errors, total_lines |-> total_lines,
                parsed_count |-> parsed_count])
       IN  IF NoLines(counters.total_lines)
           THEN /\ second' = [second EXCEPT !.p_pc = "returned"]
                /\ UNCHANGED error_log
           ELSE IF counters.total_lines = 0
           THEN /\ second' = [second EXCEPT !.p_pc = "raised",
                                            !.exc = [type |-> "ZeroDivisionError"]]
                /\ UNCHANGED error_log
           ELSE IF ErrorRateExceeds(counters.errors, counters.total_lines,
                                    second.error_threshold)
           THEN /\ error_log' = Append(error_log,
                       [error_rate |-> Percent2(counters.errors, counters.total_lines),
                        error_threshold |-> Percent2(second.error_threshold[1],
                                                     second.error_threshold[2]),
                        total_lines |-> counters.total_lines,
                        errors |-> counters.errors])
                /\ second' = [second EXCEPT
                                 !.p_pc = "raised",
                                 !.exc = BudgetError(counters.errors, counters.total_lines,
                                                     second.error_threshold)]
           ELSE /\ second' = [second EXCEPT !.p_pc = "returned"]
                /\ UNCHANGED error_log
    /\ UNCHANGED <<log_file, error_threshold, pos, errors, total_lines, parsed_count,
                   yielded, p_pc, exc>>
    /\ UNCHANGED <<env_vars, report_dir, main_vars, handle, stats_vars, renderer_data,
                   global_vars>>

InitTwoPasses ==
    /\ \E file \in SeqsUpTo(TwoPassLines, MaxLines), threshold \in {<<0, 1>>, <<1, 2>>} :
           ParseStart(file, threshold)
    /\ p_pc = "loop"
    /\ log_dir = {}
    /\ MainIdle

NextTwoPasses ==
    \/ ParseLine
    \/ Gate
    \/ \E file \in SeqsUpTo(TwoPassLines, MaxSecondLines) : SecondStart(file, <<1, 2>>)
    \/ SecondParseLine
    \/ SecondGate

SpecTwoPasses == InitTwoPasses /\ [][NextTwoPasses]_vars

(***************************************************************************)
(* The global configuration of config.py: set_config and get_config called *)
(* in any order, up to MaxConfigCalls times, on the module-level dict      *)
(* _CONFIG_CONTAINER, which is empty when the module is imported.          *)
(***************************************************************************)
GlobalConfigs ==
    {ConfigModel(DEFAULT_ERROR_THRESHOLD, DEFAULT_REPORT_SIZE),
     ConfigModel(<<1, 2>>, 1),
     ConfigModel(<<1, 1>>, 2)}

NeverInContainer(key, container) == FALSE

\* key in _CONFIG_CONTAINER
InContainer(key, container) == \E item \in container : item[1] = key

\* _CONFIG_CONTAINER[key]
ContainerItem(key, container) == (CHOOSE item \in container : item[1] = key)[2]

\* The record of a call: its name, its argument (None for get_config), the
\* exception it raised ("None" if none) and the value it returned.
ConfigCall(name, arg, raised, returned) ==
    [name |-> name, arg |-> arg, raised |-> raised, returned |-> returned]

\* set_config(new_config)
set_config(new_config) ==
    /\ Len(config_calls) < MaxConfigCalls
    /\ IF InContainer("instance", _CONFIG_CONTAINER)
       THEN /\ config_calls' = Append(config_calls,
                   ConfigCall("set_config", new_config, "RuntimeError", None))
            /\ UNCHANGED _CONFIG_CONTAINER
       ELSE /\ _CONFIG_CONTAINER' =
                   {item \in _CONFIG_CONTAINER : item[1] /= "instance"}
                   \cup {<<"instance", new_config>>}
            /\ config_calls' = Append(config_calls,
                   ConfigCall("set_config", new_config, "None", None))
    /\ UNCHANGED <<parse_vars, env_vars, report_dir, main_vars, handle, stats_vars,
                   renderer_data, second>>

\* get_config()
get_config ==
    /\ Len(config_calls) < MaxConfigCalls
    /\ IF ~InContainer("instance", _CONFIG_CONTAINER)
       THEN config_calls' = Append(config_calls,
                ConfigCall("get_config", None, "RuntimeError", None))
       ELSE config_calls' = Append(config_calls,
                ConfigCall("get_config", None, "None",
                           ContainerItem("instance", _CONFIG_CONTAINER)))
    /\ UNCHANGED <<parse_vars, env_vars, report_dir, main_vars, handle, stats_vars,
                   renderer_data, second, _CONFIG_CONTAINER>>

InitConfig ==
    /\ ParseStart(<<>>, DEFAULT_ERROR_THRESHOLD)
    /\ p_pc = "unstarted"
    /\ log_dir = {}
    /\ MainIdle

NextConfig ==
    \/ \E new_config \in GlobalConfigs : set_config(new_config)
    \/ get_config

SpecConfig == InitConfig /\ [][NextConfig]_vars

\* find_latest_log alone, called once on a directory.
FindLatestLog ==
    /\ m_pc = "idle"
    /\ log_metadata = NoMetadata
    /\ \E result \in find_latest_log(log_dir) : log_metadata' = result
    /\ UNCHANGED <<parse_vars, env_vars, report_dir, m_pc, exit_status, main_exc,
                   config, parsed_entries, statistics, calls, handle, stats_vars, renderer_data, second, global_vars>>

InitLocate ==
    /\ ParseStart(<<>>, DEFAULT_ERROR_THRESHOLD)
    /\ p_pc = "unstarted"
    /\ log_dir \in Directories
    /\ MainIdle

NextLocate == FindLatestLog

SpecLocate == InitLocate /\ [][NextLocate]_vars

(***************************************************************************)
(* main.  sys.exit(n) ends the run with status n; an exception no handler  *)
(* of main catches ends it with status 1 (the interpreter's traceback).    *)
(* main.py imports LogParsingError from log_parser, which defines no such  *)
(* class: the model takes the name as an exception class that parse_log,   *)
(* which raises ValueError, never raises.  unzip_if_needed gives the lines *)
(* of the located file, log_file; reading or decoding it can fail.         *)
(***************************************************************************)
Exit(status, raised, handler) ==
    /\ m_pc' = "exited"
    /\ exit_status' = status
    /\ main_exc' = [type |-> raised, handler |-> handler]

\* Step 1: load the configuration.
MainLoadConfig ==
    /\ m_pc = "config"
    /\ IF args_config = "None"
       THEN /\ config' = ConfigModel(DEFAULT_ERROR_THRESHOLD, DEFAULT_REPORT_SIZE)
            /\ m_pc' = "locate"
            /\ UNCHANGED <<exit_status, main_exc>>
       ELSE LET loaded == from_toml(config_file, log_dir_is_dir, report_dir_is_dir)
            IN  IF loaded.raised = "None"
                THEN /\ config' = loaded.config
                     /\ m_pc' = "locate"
                     /\ UNCHANGED <<exit_status, main_exc>>
                ELSE /\ Exit(1, loaded.raised, loaded.raised)
                     /\ config' = config
    /\ UNCHANGED <<parse_vars, env_vars, report_dir, log_metadata, parsed_entries,
                   statistics, calls, handle, stats_vars, renderer_data, second, global_vars>>

\* Step 2: find the latest log file.
MainFindLatestLog ==
    /\ m_pc = "locate"
    /\ calls' = Append(calls, "find_latest_log")
    /\ IF ~log_dir_is_dir
       THEN \* log_dir.iterdir() raises, outside any try
            /\ Exit(1, "FileNotFoundError", "uncaught")
            /\ log_metadata' = log_metadata
       ELSE \E result \in find_latest_log(log_dir) :
                IF result.kind = "raised"
                THEN /\ Exit(1, result.type, "uncaught")
                     /\ log_metadata' = log_metadata
                ELSE /\ log_metadata' = result
                     /\ IF result.type = "None"
                        THEN Exit(0, "None", "None")
                        ELSE /\ m_pc' = "check_report"
                             /\ UNCHANGED <<exit_status, main_exc>>
    /\ UNCHANGED <<parse_vars, env_vars, report_dir, config, parsed_entries, statistics,
                   handle, stats_vars, renderer_data, second, global_vars>>

\* main's report_path (the file name inside config.report_dir)
report_path == ReportFilename(log_metadata.value.date)

ReportNeverExists(files, name) == FALSE

\* report_path.exists()
ReportExists(files, name) == \E f \in files : f.name = name

\* Step 3: leave if the report exists, else create the unzip_if_needed
\* generator (the file is opened when its first line is asked for) and the
\* parse_log generator that list() will drive.
MainCheckReport ==
    /\ m_pc = "check_report"
    /\ IF ReportExists(report_dir, report_path)
       THEN /\ Exit(0, "None", "None")
            /\ UNCHANGED <<p_pc, error_threshold, calls, handle>>
       ELSE /\ m_pc' = "parse"
            /\ p_pc' = "loop"
            /\ handle' = "unopened"
            /\ error_threshold' = config.error_threshold
            /\ calls' = calls \o <<"unzip_if_needed", "parse_log">>
            /\ UNCHANGED <<exit_status, main_exc>>
    /\ UNCHANGED <<log_file, pos, errors, total_lines, parsed_count, yielded, exc,
                   error_log>>
    /\ UNCHANGED <<env_vars, report_dir, config, log_metadata, parsed_entries, statistics,
                   stats_vars, renderer_data, second, global_vars>>

\* Asking unzip_if_needed for a line fails: the file cannot be opened, or
\* reading, decompressing or decoding it raises.  The with statement of
\* unzip_if_needed closes a file it had opened, and the exception leaves
\* parse_log through its for loop.
ReadError ==
    /\ p_pc = "loop"
    /\ handle \in {"unopened", "open"}
    /\ handle' \in (IF handle = "unopened" THEN {"unopened", "closed"} ELSE {"closed"})
    /\ p_pc' = "raised"
    /\ exc' = [type |-> "OSError"]
    /\ UNCHANGED <<log_file, error_threshold, pos, errors, total_lines, parsed_count,
                   yielded, error_log>>
    /\ UNCHANGED <<env_vars, report_dir, main_vars, stats_vars, renderer_data, second, global_vars>>

NotClosing(file_handle) == file_handle

\* contextlib.closing: leaving the with block of main calls close() on the
\* unzip_if_needed generator, which closes a file that is still open.
Closing(file_handle) == IF file_handle = "open" THEN "closed" ELSE file_handle

\* list(generator): the list of everything yielded when the generator
\* returns; nothing is bound when it raises.
ListResultPartial(generator_pc, items) == [bound |-> TRUE, value |-> items]

ListResult(generator_pc, items) ==
    IF generator_pc = "returned" THEN [bound |-> TRUE, value |-> items] ELSE Unbound

\* Step 4: list(parse_log(...)) has driven the generator to its end.
MainCollect ==
    /\ m_pc = "parse"
    /\ p_pc \in {"returned", "raised"}
    /\ parsed_entries' = ListResult(p_pc, yielded)
    /\ IF p_pc = "raised"
       THEN Exit(1, exc.type,
                 IF exc.type = "LogParsingError" THEN "LogParsingError" ELSE "Exception")
       ELSE IF yielded = <<>>
            THEN Exit(0, "None", "None")
            ELSE /\ m_pc' = "stats"
                 /\ UNCHANGED <<exit_status, main_exc>>
    /\ handle' = Closing(handle)
    /\ UNCHANGED <<parse_vars, env_vars, report_dir, config, log_metadata, statistics, calls,
                   stats_vars, renderer_data, second, global_vars>>

\* Step 5: compute the statistics.
MainStatistics ==
    /\ m_pc = "stats"
    /\ statistics' = calculate_statistics(url_stats, parsed_entries.value)
    /\ url_stats' = Accumulators(url_stats, parsed_entries.value)
    /\ outputs' = Append(outputs, statistics')
    /\ calls' = Append(calls, "calculate_statistics")
    /\ m_pc' = "report"
    /\ UNCHANGED <<parse_vars, env_vars, report_dir, exit_status, main_exc, config,
                   log_metadata, parsed_entries, handle, renderer_data, second, global_vars>>

WholeStatistics == statistics

\* statistics[: config.report_size]
report_data ==
    SubSeq(statistics, 1,
           IF config.report_size < Len(statistics) THEN config.report_size
           ELSE Len(statistics))

\* Steps 6 and 7: truncate and call generate_report(report_data, report_path).
\* A call that does not give every required parameter raises TypeError
\* before the body of the function runs; except Exception catches it.
MainReport ==
    /\ m_pc = "report"
    /\ renderer_data' = [bound |-> TRUE, value |-> report_data]
    /\ IF MainReportArgs /= GenerateReportParams
       THEN /\ Exit(1, "TypeError", "Exception")
            /\ UNCHANGED <<report_dir, calls>>
       ELSE \E template_exists \in BOOLEAN :
                LET done == generate_report(report_data, report_path, template_exists,
                                            report_dir)
                IN  /\ calls' = Append(calls, "generate_report")
                    /\ report_dir' = done.files
                    /\ IF done.raised = "None"
                       THEN Exit(0, "None", "None")
                       ELSE Exit(1, done.raised, "Exception")
    /\ UNCHANGED <<parse_vars, env_vars, config, log_metadata, parsed_entries, statistics,
                   handle, stats_vars, second, global_vars>>

\* A run of main: the command line, the configuration file, the two
\* directories and the content of the newest log file.
Init ==
    /\ \E file \in LogFiles : ParseStart(file, DEFAULT_ERROR_THRESHOLD)
    /\ p_pc = "unstarted"
    /\ args_config \in {"None", "config.toml"}
    /\ config_file \in (IF args_config = "None" THEN {NoConfigFile} ELSE ConfigFiles)
    /\ log_dir_is_dir \in BOOLEAN
    /\ report_dir_is_dir \in BOOLEAN
    /\ log_dir \in (IF log_dir_is_dir THEN MainDirectories ELSE {{}})
    /\ report_dir \in (IF report_dir_is_dir THEN ReportDirectories ELSE {{}})
    /\ m_pc = "config"
    /\ exit_status = NotExited
    /\ main_exc = NotRaised
    /\ config = ConfigModel(DEFAULT_ERROR_THRESHOLD, DEFAULT_REPORT_SIZE)
    /\ log_metadata = NoMetadata
    /\ parsed_entries = Unbound
    /\ statistics = <<>>
    /\ calls = <<>>
    /\ handle = "none"
    /\ url_stats = <<>>
    /\ outputs = <<>>
    /\ renderer_data = Unbound
    /\ second = NoFrame
    /\ _CONFIG_CONTAINER = {}
    /\ config_calls = <<>>

Next ==
    \/ MainLoadConfig
    \/ MainFindLatestLog
    \/ MainCheckReport
    \/ ParseLine
    \/ Gate
    \/ ReadError
    \/ MainCollect
    \/ MainStatistics
    \/ MainReport

Spec == Init /\ [][Next]_vars

(***************************************************************************)
(* Properties.                                                             *)
(***************************************************************************)

\* Number of lines of the input that LOG_LINE_PATTERN does not match.
FailedLines(file) == Cardinality({i \in 1..Len(file) : ~file[i].head})

\* parse_log ended by raising the error of the budget.
BudgetRaised == p_pc = "raised" /\ exc.type = "ValueError"

\* parse_log ended after taking every line of a non-empty input.
FullPassEnded ==
    /\ p_pc \in {"returned", "raised"}
    /\ pos = Len(log_file)
    /\ exc.type /= "TypeError"
    /\ Len(log_file) > 0

\* C1: a full pass over a non-empty input ends with the budget error exactly
\* when failed lines / all lines is strictly greater than error_threshold,
\* and ends normally when the ratio is equal to or lower than it.
C1_BudgetIffRatioExceeds ==
    FullPassEnded =>
        LET exceeds == FailedLines(log_file) * error_threshold[2]
                         > error_threshold[1] * Len(log_file)
        IN  /\ BudgetRaised <=> exceeds
            /\ ~exceeds => p_pc = "returned" /\ exc = NoException

\* C1 witness: a pass with failures whose ratio equals the threshold ended
\* normally.
C1_Witness ==
    /\ FullPassEnded
    /\ p_pc = "returned"
    /\ errors >= 1
    /\ errors * error_threshold[2] = error_threshold[1] * total_lines

\* C2 as stated: in a pass that ends with the budget error the consumer of
\* parse_log has received no observation.
C2_NothingYielded == BudgetRaised => yielded = <<>>

\* C2 amended: in a pass that ends with the budget error, main, which
\* collects the pass with list(), binds no observation and computes no
\* statistics; the generator itself has yielded the parsed observations.
C2_MainKeepsNothing ==
    BudgetRaised =>
        /\ parsed_entries = Unbound
        /\ statistics = <<>>
        /\ Len(yielded) = Len(log_file) - FailedLines(log_file)

\* C2 witness: main ended on the budget error of a pass that had yielded
\* an observation.
C2_Witness ==
    /\ m_pc = "exited"
    /\ BudgetRaised
    /\ yielded /= <<>>

\* The next line parse_log takes has the shape the pattern asks for up to
\* the last quoted field and no decimal after it.
NextLineLacksDuration ==
    /\ p_pc = "loop"
    /\ pos < Len(log_file)
    /\ log_file[pos + 1].head
    /\ log_file[pos + 1].tail = None

\* C3: a line without the trailing duration is counted as a failure, yields
\* nothing and leaves the pass running.
C3_NoDurationCountsAsFailure ==
    [][NextLineLacksDuration =>
          /\ errors' = errors + 1
          /\ yielded' = yielded
          /\ p_pc' = "loop"]_vars

\* C4: every line taken gives one observation or one counted failure, and
\* the only error a pass raises is the budget error after the last line.
C4_OnlyBudgetErrorPerLine ==
    /\ total_lines = Len(yielded) + errors
    /\ p_pc = "raised" => exc.type = "ValueError" /\ pos = Len(log_file)

\* C5: the budget error is raised only once every line has been taken, on
\* one comparison, when total_lines is the number of lines of the input.
C5_DecisionAfterLastLine ==
    /\ BudgetRaised => pos = Len(log_file) /\ total_lines = Len(log_file)
    /\ p_pc = "loop" => exc = NoException /\ error_log = <<>>
    /\ Len(error_log) <= 1

\* C5 witness: the budget error was raised on an input of several lines
\* whose first line had already failed.
C5_Witness ==
    /\ BudgetRaised
    /\ Len(log_file) >= 2
    /\ ~log_file[1].head
    /\ yielded /= <<>>

\* C6: the budget error carries error_rate, error_threshold, total_lines
\* and errors, with the values of the pass.
C6_ErrorCarriesCounts ==
    BudgetRaised =>
        /\ {"error_rate", "error_threshold", "total_lines", "errors"} \subseteq DOMAIN exc
        /\ exc.total_lines = Len(log_file)
        /\ exc.errors = FailedLines(log_file)
        /\ exc.error_threshold = error_threshold
        /\ exc.error_rate = <<exc.errors, exc.total_lines>>

\* main has called the function.
Called(name) == \E i \in 1..Len(calls) : calls[i] = name

\* A report for the located log is in the report directory.
ReportPresent == \E f \in report_dir : f.name = report_path

\* C7: when the failure ratio of the log main parses exceeds the threshold,
\* calculate_statistics and generate_report are never called, no report is
\* written, and the run ends with exit status 1.
C7_NoReportOnBudgetError ==
    (/\ Called("parse_log")
     /\ Len(log_file) > 0
     /\ FailedLines(log_file) * error_threshold[2] > error_threshold[1] * Len(log_file))
    => /\ ~Called("calculate_statistics")
       /\ ~Called("generate_report")
       /\ ~ReportPresent
       /\ m_pc \in {"parse", "exited"}
       /\ m_pc = "exited" => exit_status = 1

\* C7 witness: main ended with status 1 on the budget error.
C7_Witness ==
    /\ m_pc = "exited"
    /\ BudgetRaised
    /\ exit_status = 1
    /\ main_exc.type = "ValueError"

\* C8: when a log was located, no report existed for its date, the ratio
\* did not exceed the threshold and an observation was parsed, main has
\* written the report named by the date of the log and ends without an
\* error exit.
C8_ReportWritten ==
    (m_pc = "exited" /\ parsed_entries.bound /\ parsed_entries.value /= <<>>)
    => /\ \E f \in report_dir : f.name = report_path /\ f.content = report_data
       /\ exit_status = 0

\* The names the file-name grammar nginx-access-ui.log-<8 digits>[.gz]
\* describes.
InGrammar(name) ==
    /\ name.prefix = LogPrefix
    /\ name.digits /= None
    /\ name.suffix \in {"", ".gz"}

\* No name of the directory has eight digits that are not a date.
AllDatesValid(dir) == \A f \in dir : f.digits /= None => ~StrptimeRaises(f.digits)

\* C9: in a directory whose dated names all carry calendar dates,
\* find_latest_log returns None when no name is in the grammar, and
\* otherwise an entry of the grammar with the largest date, GZ exactly when
\* its name ends in .gz.
C9_LatestOfGrammar ==
    (log_metadata.kind /= "unset" /\ AllDatesValid(log_dir)) =>
        LET candidates == {f \in log_dir : InGrammar(f)}
        IN  /\ log_metadata.kind = "returned"
            /\ IF candidates = {}
               THEN log_metadata.type = "None"
               ELSE /\ log_metadata.type = "LogFileMetadata"
                    /\ log_metadata.value.path \in candidates
                    /\ log_metadata.value.date = log_metadata.value.path.digits
                    /\ \A f \in candidates : ~DateLess(log_metadata.value.date, f.digits)
                    /\ log_metadata.value.file_type = "GZ"
                         <=> log_metadata.value.path.suffix = ".gz"

\* C10: a name of the pattern whose digits are not a date is left out:
\* find_latest_log raises nothing and returns the latest of the other
\* matching entries, or None.
C10_InvalidDateExcluded ==
    log_metadata.kind /= "unset" =>
        LET candidates == {f \in MatchingEntries(log_dir) : ~StrptimeRaises(f.digits)}
        IN  /\ log_metadata.kind = "returned"
            /\ IF candidates = {}
               THEN log_metadata.type = "None"
               ELSE /\ log_metadata.type = "LogFileMetadata"
                    /\ log_metadata.value.path \in candidates
                    /\ \A f \in candidates : ~DateLess(log_metadata.value.date, f.digits)

(***************************************************************************)
(* Properties of the statistics.                                           *)
(***************************************************************************)

\* The URLs of the entries given to calculate_statistics.
YieldedUrls == {yielded[i].url : i \in 1..Len(yielded)}

\* The positions in the input of the entries of one URL.
EntriesOf(url) == {i \in 1..Len(yielded) : yielded[i].url = url}

RECURSIVE SumCounts(_)
SumCounts(records) ==
    IF records = <<>> THEN 0 ELSE records[1].count + SumCounts(Tail(records))

\* The sum of fractions, as a fraction; fractions of one denominator keep it.
RECURSIVE SumFractions(_)
SumFractions(fractions) ==
    IF fractions = <<>> THEN <<0, 1>>
    ELSE IF Len(fractions) = 1 THEN fractions[1]
    ELSE LET rest == SumFractions(Tail(fractions))
             first == fractions[1]
         IN  IF first[2] = rest[2] THEN <<first[1] + rest[1], first[2]>>
             ELSE <<first[1] * rest[2] + rest[1] * first[2], first[2] * rest[2]>>

\* Equality of two fractions with positive denominators.
SameFraction(a, b) ==
    IF a[2] = b[2] THEN a[1] = b[1] ELSE a[1] * b[2] = b[1] * a[2]

\* C11: on an input of zero lines parse_log yields nothing, raises nothing
\* and logs nothing, whatever the threshold, and every call of
\* calculate_statistics on what it yielded returns the empty sequence.
C11_EmptyInput ==
    log_file = <<>> =>
        /\ yielded = <<>>
        /\ p_pc /= "raised"
        /\ exc = NoException
        /\ error_log = <<>>
        /\ \A r \in 1..Len(outputs) : outputs[r] = <<>>

\* C11 witness: the pass over an empty input has returned under the
\* threshold 0 and calculate_statistics has been called on its result.
C11_Witness ==
    /\ log_file = <<>>
    /\ error_threshold = <<0, 1>>
    /\ p_pc = "returned"
    /\ Len(outputs) >= 1

\* C12: the counts of the records calculate_statistics returns sum to the
\* number of entries it was given, and the records are one per distinct URL
\* of the entries: every URL of the input has exactly one record and every
\* record is of a URL of the input.
C12_CountsAndUrls ==
    \A r \in 1..Len(outputs) :
        /\ SumCounts(outputs[r]) = Len(yielded)
        /\ \A u \in YieldedUrls :
               Cardinality({i \in 1..Len(outputs[r]) : outputs[r][i].url = u}) = 1
        /\ \A i \in 1..Len(outputs[r]) : outputs[r][i].url \in YieldedUrls
        /\ \A i \in 1..Len(outputs[r]) :
               outputs[r][i].count = Cardinality(EntriesOf(outputs[r][i].url))

\* C12 witness: statistics of three entries of two URLs, one URL seen
\* before and after the other.
C12_Witness ==
    /\ Len(outputs) >= 1
    /\ Len(yielded) = 3
    /\ yielded[1].url = yielded[3].url
    /\ yielded[2].url /= yielded[1].url
    /\ Len(outputs[1]) = 2

\* C13: in what calculate_statistics returns, every record has a time_sum
\* greater than or equal to the time_sum of the record after it.
C13_SortedByTimeSum ==
    \A r \in 1..Len(outputs) :
        \A i \in 1..(Len(outputs[r]) - 1) :
            outputs[r][i].time_sum >= outputs[r][i + 1].time_sum

\* C13 witness: the URL observed first has the smaller time_sum and comes
\* second in the output.
C13_Witness ==
    /\ Len(outputs) >= 1
    /\ Len(outputs[1]) = 2
    /\ outputs[1][2].url = yielded[1].url
    /\ outputs[1][1].time_sum > outputs[1][2].time_sum

C14_ZeroDurationWitness ==
    /\ Len(outputs) >= 1
    /\ Len(outputs[1]) = 2
    /\ \A i \in 1..Len(yielded) : yielded[i].request_time = 0

\* The k-th smallest of the durations observed for a URL, by counting: the
\* duration with fewer than k durations below it and at least k durations
\* not above it.
KthSmallest(url, k) ==
    CHOOSE v \in {yielded[i].request_time : i \in EntriesOf(url)} :
        /\ Cardinality({i \in EntriesOf(url) : yielded[i].request_time < v}) < k
        /\ Cardinality({i \in EntriesOf(url) : yielded[i].request_time <= v}) >= k

\* C15: time_med of the record of a URL is the median of the durations
\* observed for the URL, in whatever order they arrived: the middle one in
\* size when their number is odd, the average of the two middle ones when
\* it is even.
C15_Median ==
    \A r \in 1..Len(outputs) :
        \A i \in 1..Len(outputs[r]) :
            LET url == outputs[r][i].url
                n == Cardinality(EntriesOf(url))
            IN  IF n % 2 = 1
                THEN SameFraction(outputs[r][i].time_med, <<KthSmallest(url, (n + 1) \div 2), 1>>)
                ELSE SameFraction(outputs[r][i].time_med,
                                  <<KthSmallest(url, n \div 2)
                                      + KthSmallest(url, n \div 2 + 1), 2>>)

\* C15 witness: three durations of one URL arrived with the largest in the
\* middle.
C15_Witness ==
    /\ Len(outputs) >= 1
    /\ Len(yielded) = 3
    /\ Len(outputs[1]) = 1
    /\ yielded[2].request_time > yielded[1].request_time
    /\ yielded[2].request_time > yielded[3].request_time

(***************************************************************************)
(* Properties of a run of main, continued.                                 *)
(***************************************************************************)

\* C16: the records main hands to generate_report are the first
\* min(report_size, N) of the N records of calculate_statistics, in the
\* same order: never more than report_size, and no record left out has a
\* larger time_sum than a record handed over.
C16_RendererGetsFirstRecords ==
    renderer_data.bound =>
        LET handed == renderer_data.value
            N == Len(statistics)
        IN  /\ Len(handed) <= config.report_size
            /\ Len(handed) <= N
            /\ Len(handed) = config.report_size \/ Len(handed) = N
            /\ \A i \in 1..Len(handed) : handed[i] = statistics[i]
            /\ \A i \in 1..Len(handed) :
                   \A j \in (Len(handed) + 1)..N :
                       statistics[j].time_sum <= handed[i].time_sum

\* C16 witness: two records were computed, report_size is 1, and the
\* record handed over has the larger time_sum.
C16_Witness ==
    /\ renderer_data.bound
    /\ config.report_size = 1
    /\ Len(statistics) = 2
    /\ Len(renderer_data.value) = 1
    /\ statistics[2].time_sum < renderer_data.value[1].time_sum

\* C17: when main reaches its test of the report path and a report named
\* by the date of the located log is in the report directory, its next
\* step ends the run with exit status 0; the log file has not been opened,
\* no line has been taken, no further function has been called and the
\* report directory is as it was.
C17_ExistingReportSkipsRun ==
    [][(/\ m_pc = "check_report"
        /\ \E f \in report_dir : f.name = ReportFilename(log_metadata.value.date))
       => /\ m_pc' = "exited"
          /\ exit_status' = 0
          /\ report_dir' = report_dir
          /\ handle' = "none"
          /\ p_pc' = "unstarted"
          /\ pos' = 0
          /\ calls' = calls]_vars

\* C17 witness: a run that located a log ended with status 0 on the report
\* that was already there, without a call of unzip_if_needed or parse_log.
C17_Witness ==
    /\ m_pc = "exited"
    /\ exit_status = 0
    /\ log_metadata.type = "LogFileMetadata"
    /\ \E f \in report_dir : f.name = ReportFilename(log_metadata.value.date)
    /\ calls = <<"find_latest_log">>
    /\ handle = "none"

\* The configuration main is started on has a problem: the file given by
\* --config is missing, malformed or holds a value the validators refuse,
\* or the log or the report directory does not exist.
ConfigProblem ==
    \/ args_config /= "None" /\ config_file \notin ValidConfigFiles
    \/ ~log_dir_is_dir
    \/ ~report_dir_is_dir

\* C18: a run of main started on a configuration with a problem never
\* calls find_latest_log nor reaches a later stage, and ends with exit
\* status 1.
C18_ConfigProblemStopsRun ==
    ConfigProblem =>
        /\ ~Called("find_latest_log")
        /\ m_pc \in {"config", "exited"}
        /\ m_pc = "exited" => exit_status = 1

\* C19: once list(parse_log(...)) has ended and main has left its with
\* block, the file of unzip_if_needed is not open: it is closed when the
\* lines were exhausted, when reading failed and when parse_log raised
\* with lines left; no run of main ends with the file open.
C19_HandleClosed ==
    /\ m_pc \in {"stats", "report", "exited"} => handle /= "open"
    /\ (handle /= "none" /\ p_pc = "returned") => handle = "closed"
    /\ (handle /= "none" /\ p_pc = "raised" /\ exc.type \in {"ValueError", "OSError"})
          => handle /= "open"
    /\ (m_pc = "exited" /\ pos > 0) => handle = "closed"

\* C19 witness: parse_log raised with lines left unread, and the run ended
\* with the file closed.
C19_Witness ==
    /\ m_pc = "exited"
    /\ p_pc = "raised"
    /\ exc.type = "TypeError"
    /\ pos < Len(log_file)
    /\ handle = "closed"

\* C20: every call of calculate_statistics on the same entries returns the
\* same records, and the accumulators a call ends with hold the entries of
\* that call only.
C20_RunsAgree ==
    /\ \A r \in 1..Len(outputs) : outputs[r] = outputs[1]
    /\ \A i \in 1..Len(url_stats) :
           /\ url_stats[i].count = Cardinality(EntriesOf(url_stats[i].url))
           /\ Len(url_stats[i].times) = Cardinality(EntriesOf(url_stats[i].url))

\* C20 witness: calculate_statistics has been called twice on three entries.
C20_Witness ==
    /\ Len(outputs) >= 2
    /\ Len(yielded) = 3
    /\ outputs[2] /= <<>>

(***************************************************************************)
(* Properties of the statistics, continued.                                *)
(***************************************************************************)

\* The position in the input of the first entry of a URL.
FirstObservation(url) ==
    CHOOSE i \in EntriesOf(url) : \A j \in EntriesOf(url) : i <= j

\* C21: of two records with equal time_sum in what calculate_statistics
\* returns, the one that comes first is of the URL whose first entry is
\* earlier in the input.
C21_TiesKeepInsertionOrder ==
    \A r \in 1..Len(outputs) :
        \A i \in 1..Len(outputs[r]) :
            \A j \in (i + 1)..Len(outputs[r]) :
                outputs[r][i].time_sum = outputs[r][j].time_sum
                    => FirstObservation(outputs[r][i].url) < FirstObservation(outputs[r][j].url)

\* C21 witness: two URLs have the same positive time_sum, reached by
\* different numbers of entries.
C21_Witness ==
    /\ Len(outputs) >= 1
    /\ Len(outputs[1]) = 2
    /\ outputs[1][1].time_sum = outputs[1][2].time_sum
    /\ outputs[1][1].time_sum > 0
    /\ outputs[1][1].count /= outputs[1][2].count

(***************************************************************************)
(* Properties of parse_log, continued.                                     *)
(***************************************************************************)

\* The observations of the lines that match and carry a duration, in the
\* order of the lines.
RECURSIVE ObservationsOf(_)
ObservationsOf(lines) ==
    IF lines = <<>> THEN <<>>
    ELSE LET before == ObservationsOf(SubSeq(lines, 1, Len(lines) - 1))
             line == lines[Len(lines)]
         IN  IF line.head /\ line.tail /= None
             THEN Append(before, [url |-> line.url,
                                  request_time |-> line.tail[1] * 1000 + line.tail[2]])
             ELSE before

\* C22: at every point of a pass of parse_log, total_lines is the number
\* of lines taken and equals the number of observations yielded plus
\* errors, and the observations yielded are those of the lines taken, in
\* the order of the lines.
C22_CountersAddUp ==
    /\ total_lines = pos
    /\ total_lines = Len(yielded) + errors
    /\ yielded = ObservationsOf(SubSeq(log_file, 1, pos))

(***************************************************************************)
(* Properties of a run of main, continued.                                 *)
(***************************************************************************)

\* main has ended after a pass of parse_log that no read error cut short.
EndedAfterParse ==
    /\ m_pc = "exited"
    /\ Called("parse_log")
    /\ exc.type /= "OSError"

\* Nothing was computed, handed to generate_report or written.
NothingReported ==
    /\ ~Called("calculate_statistics")
    /\ ~Called("generate_report")
    /\ ~renderer_data.bound
    /\ ~ReportPresent

\* C23: a run whose log is not empty, has only lines that fail to parse and
\* is parsed under the threshold 1 ends with exit status 0 and without a
\* report, as a run on an empty log does under any threshold; a report is
\* in the report directory after a pass only if the pass gave at least one
\* observation.
C23_AllLinesFailNoReport ==
    /\ (/\ EndedAfterParse
        /\ Len(log_file) > 0
        /\ FailedLines(log_file) = Len(log_file)
        /\ error_threshold = <<1, 1>>)
       => (p_pc = "returned" /\ exit_status = 0 /\ NothingReported)
    /\ (EndedAfterParse /\ log_file = <<>>)
       => (p_pc = "returned" /\ exit_status = 0 /\ NothingReported)
    /\ (Called("parse_log") /\ ReportPresent)
       => (parsed_entries.bound /\ parsed_entries.value /= <<>>)

\* C23 witness: a log of two lines that both fail was parsed under the
\* threshold 1 and the run ended with status 0.
C23_Witness ==
    /\ EndedAfterParse
    /\ Len(log_file) = 2
    /\ errors = 2
    /\ error_threshold = <<1, 1>>
    /\ exit_status = 0

(***************************************************************************)
(* Properties of two passes of parse_log.                                  *)
(***************************************************************************)

\* The number of lines a pass running alone takes before it ends: up to
\* and including the first line that matches without a duration, on which
\* the pass raises TypeError, else all of them.
TakenAlone(file) ==
    LET crashing == {i \in 1..Len(file) : file[i].head /\ file[i].tail = None}
    IN  IF crashing = {} THEN Len(file)
        ELSE CHOOSE i \in crashing : \A j \in crashing : i <= j

\* What a pass running alone over the input yields, counts and ends with.
AloneOutcome(file, threshold) ==
    LET taken == TakenAlone(file)
        read == SubSeq(file, 1, taken)
        failed == FailedLines(read)
        crashed == taken > 0 /\ file[taken].head /\ file[taken].tail = None
    IN  [yielded |-> ObservationsOf(read),
         total_lines |-> taken,
         errors |-> failed,
         end |-> IF crashed THEN "TypeError"
                 ELSE IF taken > 0 /\ failed * threshold[2] > threshold[1] * taken
                 THEN "ValueError"
                 ELSE "returned"]

\* What an ended pass has yielded and counted, and how it ended.
Outcome(pass_yielded, pass_total_lines, pass_errors, pass_pc, pass_exc) ==
    [yielded |-> pass_yielded,
     total_lines |-> pass_total_lines,
     errors |-> pass_errors,
     end |-> IF pass_pc = "raised" THEN pass_exc.type ELSE pass_pc]

\* C24: whatever the order of the steps of two passes of parse_log, each
\* pass, once ended, has yielded the observations, counted the lines and
\* the errors, and ended (normally or by an error) as a pass alone over
\* its input and threshold does; meanwhile no pass has counted more lines
\* than it has taken.
C24_PassesIndependent ==
    /\ p_pc \in {"returned", "raised"}
           => Outcome(yielded, total_lines, errors, p_pc, exc)
                  = AloneOutcome(log_file, error_threshold)
    /\ second.p_pc \in {"returned", "raised"}
           => Outcome(second.yielded, second.total_lines, second.errors, second.p_pc,
                      second.exc)
                  = AloneOutcome(second.log_file, second.error_threshold)
    /\ total_lines = pos
    /\ second.total_lines = second.pos

\* C24 witness: both passes have ended, over different inputs, the first
\* normally with failures counted, the second by the error of the budget.
C24_Witness ==
    /\ p_pc = "returned"
    /\ errors >= 1
    /\ Len(yielded) >= 1
    /\ second.p_pc = "raised"
    /\ second.exc.type = "ValueError"
    /\ second.errors = 2
    /\ log_file /= second.log_file

(***************************************************************************)
(* Properties of the global configuration.                                 *)
(***************************************************************************)

\* The calls of set_config made before the i-th call.
SetsBefore(i) == {j \in 1..(i - 1) : config_calls[j].name = "set_config"}

\* The argument of the first call of set_config among the calls in earlier.
FirstGiven(earlier) ==
    config_calls[CHOOSE j \in earlier : \A k \in earlier : j <= k].arg

\* C25: in every sequence of calls, a get_config with no set_config before
\* it raises RuntimeError, the first set_config raises nothing, every later
\* set_config raises RuntimeError, every get_config after the first
\* set_config returns the configuration given to that first call, and the
\* stored configuration is, at every moment after it, the one given to
\* the first set_config.
C25_WriteOnce ==
    /\ \A i \in 1..Len(config_calls) :
           LET call == config_calls[i]
           IN  IF call.name = "get_config"
               THEN IF SetsBefore(i) = {}
                    THEN call.raised = "RuntimeError"
                    ELSE /\ call.raised = "None"
                         /\ call.returned = FirstGiven(SetsBefore(i))
               ELSE IF SetsBefore(i) = {}
                    THEN call.raised = "None"
                    ELSE call.raised = "RuntimeError"
    /\ LET sets == SetsBefore(Len(config_calls) + 1)
       IN  IF sets = {} THEN _CONFIG_CONTAINER = {}
           ELSE _CONFIG_CONTAINER = {<<"instance", FirstGiven(sets)>>}

\* C25 witness: get_config, set_config, set_config with another
\* configuration, get_config, in this order.
C25_Witness ==
    /\ Len(config_calls) = 4
    /\ config_calls[1].name = "get_config"
    /\ config_calls[2].name = "set_config"
    /\ config_calls[3].name = "set_config"
    /\ config_calls[3].arg /= config_calls[2].arg
    /\ config_calls[4].name = "get_config"
    /\ config_calls[4].raised = "None"

====
